---- MODULE Spec2Model ----
(***************************************************************************)
(* Model of the xuxu assistant gateway (Makarios44/xuxu_AIBOT).             *)
(*                                                                         *)
(* Several parts share one state:                                          *)
(*   - the credential store: the usertokens table, the OAuth callback of   *)
(*     auth_routes.py, refresh_google_token / refresh_ms_token of          *)
(*     token_utils.py and get_user_token of main.py  (SpecTok, SpecAuth);  *)
(*   - the thread registry: get_or_create_thread of main.py  (SpecThread); *)
(*   - the run orchestrator: call_openai_assistant and handle_tool_calls   *)
(*     of main.py against the remote assistant service  (SpecRun), and     *)
(*     its calendar tools  (SpecCal);                                      *)
(*   - the inbound webhook: messages_endpoint and on_message_activity of   *)
(*     main.py with the conversationmemory table  (SpecMsg).               *)
(* Time is the integer clock `now`; time.time() and datetime.utcnow() read *)
(* it.  A step runs a coroutine from the answer of one awaited call to the *)
(* next awaited call; an await that yields without touching any state      *)
(* (closing an HTTP client, asyncio.sleep) is joined to the step before    *)
(* it.                                                                     *)
(***************************************************************************)
EXTENDS Naturals, Integers, Sequences, FiniteSets, TLC

(***************************************************************************)
(* Bounds of the model.                                                    *)
(***************************************************************************)
MaxClock == 1
MaxIssued == 3
MaxExpiresIn == 1
MaxBatch == 2       \* tool calls in one requires_action pause
MaxPauses == 2      \* requires_action pauses of one run
MaxWait == 2        \* polls that may observe a run still queued / in_progress
MaxRows == 4        \* rows of the history table
MaxLimit == 3       \* the limit of a history query

(***************************************************************************)
(* Program constants.                                                      *)
(***************************************************************************)
DefaultExpiresIn == 3600

None == "None"

Users == {"user-demo", "u2"}
Providers == {"google", "microsoft"}
\* The refresh tokens an authorization issues, and those a refresh rotates to.
AuthRefreshTokens == {"rt1"}
RotatedRefreshTokens == {"rt2"}
Procs == {"p1", "p2"}

VARIABLES
    now,        \* the system clock
    tokens,     \* the usertokens table: a sequence of rows, in id order
    issued,     \* number of access tokens the providers have issued so far
    rf,         \* rf[p]: the refresh_*_token call coroutine p is running
    read,       \* id of the row a calendar tool holds from get_user_token, or 0
    thread_map, \* the threadmapping table: a sequence of rows, in id order
    threads,    \* number of threads created at the assistant service
    remote,     \* the run as the assistant service holds it
    orch,       \* the call_openai_assistant coroutine
    handled,    \* the pause the coroutine handled last: its number, its
                \* tool calls, the dispatches and submissions made for it
    goc,        \* goc[r]: the get_or_create_thread call of inbound request r
    calendar,   \* the calendar providers: the requests they got, their events
    history,    \* the conversationmemory table: a sequence of rows, in id order
    inb,        \* inb[r]: the /api/messages request r and its handler
    memory      \* the last answer of get_conversation_history

tokVars == <<now, tokens, issued, rf, read>>

runVars == <<thread_map, threads, remote, orch, handled>>

thrVars == <<goc>>

calVars == <<calendar>>

msgVars == <<history, inb, memory>>

vars == <<now, tokens, issued, rf, read, thread_map, threads, remote, orch,
          handled, goc, calendar, history, inb, memory>>

(***************************************************************************)
(* The usertokens table.                                                   *)
(***************************************************************************)
Min(S) == CHOOSE x \in S : \A y \in S : x <= y

\* select(UserTokens).where(user_id == u, provider == prov).first():
\* the id of the first matching row, 0 when there is none.
FirstRow_anyProvider(u, prov) ==
    LET S == {i \in DOMAIN tokens : tokens[i].user_id = u}
    IN IF S = {} THEN 0 ELSE Min(S)
FirstRow(u, prov) ==
    LET S == {i \in DOMAIN tokens :
                tokens[i].user_id = u /\ tokens[i].provider = prov}
    IN IF S = {} THEN 0 ELSE Min(S)

\* The JSON bodies a provider's token endpoint can answer with.  A key that
\* is absent from the body is None (refresh_token) or flagged (has_*).
TokenResponses(n, RefreshTokens) ==
    { [status |-> "4xx", has_access |-> FALSE, access_token |-> 0,
       refresh_token |-> None, has_expires_in |-> FALSE, expires_in |-> 0] }
    \cup
    { [status |-> "2xx", has_access |-> FALSE, access_token |-> 0,
       refresh_token |-> None, has_expires_in |-> FALSE, expires_in |-> 0] }
    \cup
    { [status |-> "2xx", has_access |-> TRUE, access_token |-> n,
       refresh_token |-> r, has_expires_in |-> FALSE, expires_in |-> 0]
        : r \in RefreshTokens \cup {None} }
    \cup
    { [status |-> "2xx", has_access |-> TRUE, access_token |-> n,
       refresh_token |-> r, has_expires_in |-> TRUE, expires_in |-> e]
        : r \in RefreshTokens \cup {None}, e \in 1..MaxExpiresIn }

\* new_data.get("expires_in", 3600)
ExpiresIn(resp) ==
    IF resp.has_expires_in THEN resp.expires_in ELSE DefaultExpiresIn

\* time.time() + new_data.get("expires_in", 3600)
NewExpiresAt_noClock(t, resp) == ExpiresIn(resp)
NewExpiresAt(t, resp) == t + ExpiresIn(resp)

\* token.expires_at and token.expires_at > time.time()
StillValid_withMargin(row, t) == row.expires_at # 0 /\ row.expires_at > t + 1
StillValid_orEqual(row, t) == row.expires_at # 0 /\ row.expires_at >= t
StillValid(row, t) == row.expires_at # 0 /\ row.expires_at > t

\* resp.raise_for_status() raises on a non-2xx answer; new_data["access_token"]
\* raises KeyError when the body has no access_token.
RaisesForStatus(resp) == resp.status # "2xx"

MissingAccessToken_ignored(resp) == FALSE
MissingAccessToken(resp) == ~resp.has_access

\* The row after token_utils assigned access_token and expires_at and
\* committed: the session updates the columns it changed, no other.
RefreshedRow_keepsExpiry(row, resp, t) ==
    [row EXCEPT !.access_token = resp.access_token]
RefreshedRow(row, resp, t) ==
    [row EXCEPT !.access_token = resp.access_token,
                !.expires_at = NewExpiresAt(t, resp)]

\* token_data.get("refresh_token", existing_token.refresh_token)
KeptRefreshToken_noDefault(row, resp) == resp.refresh_token
KeptRefreshToken(row, resp) ==
    IF resp.refresh_token # None THEN resp.refresh_token ELSE row.refresh_token

\* get_user_token of main.py: the id of the first row of the pair whose
\* expires_at is after utcnow(); 0 stands for Python's None.
get_user_token(u, prov) ==
    LET S == {i \in DOMAIN tokens :
                /\ tokens[i].user_id = u
                /\ tokens[i].provider = prov
                /\ tokens[i].expires_at > now}
    IN IF S = {} THEN 0 ELSE Min(S)

(***************************************************************************)
(* The run orchestrator: values.                                           *)
(***************************************************************************)
\* The one conversation whose inbound message is being answered.
ConversationId == "c1"

\* tool_call.function.name: a tool that calls the model, the Google Calendar
\* tools, the Microsoft Graph calendar tools, and a name handle_tool_calls
\* has no branch for.
ToolNames ==
    {"resumir_texto", "listar_eventos_google", "criar_evento_google",
     "listar_eventos_calendar", "criar_evento_calendar", "desconhecida"}
KnownToolNames ==
    {"resumir_texto", "listar_eventos_google", "criar_evento_google",
     "listar_eventos_calendar", "criar_evento_calendar"}
GoogleToolNames == {"listar_eventos_google", "criar_evento_google"}
GraphToolNames == {"listar_eventos_calendar", "criar_evento_calendar"}
CreateToolNames == {"criar_evento_google", "criar_evento_calendar"}

\* tool_call.function.arguments: the text of a JSON object, of a JSON value
\* that is no object, or no JSON at all.
ArgumentTexts == {"object", "not_object", "invalid"}

\* The tool calls of a run that uses no calendar: a tool that calls the
\* model with both kinds of JSON, and a name without branch with every kind
\* of arguments.  user_email is the "user_email" key of the arguments, which
\* only the Graph tools read.
ToolCallKinds ==
    { [name |-> "resumir_texto", arguments |-> a, user_email |-> None]
        : a \in {"object", "not_object"} }
    \cup { [name |-> "desconhecida", arguments |-> a, user_email |-> None]
                : a \in ArgumentTexts }

\* The tool calls of a run that works on calendars: the Google tools, the
\* list tool also with arguments that are no JSON, and the Graph tools
\* with the address of either user in the arguments.
CalendarCallKinds ==
    { [name |-> "listar_eventos_google", arguments |-> a, user_email |-> None]
        : a \in {"object", "invalid"} }
    \cup { [name |-> "criar_evento_google", arguments |-> "object",
            user_email |-> None] }
    \cup { [name |-> n, arguments |-> "object", user_email |-> e]
                : n \in GraphToolNames, e \in Users }

\* run.required_action.submit_tool_outputs.tool_calls with calls of the given
\* kinds: the id of a call is its position in the batch.
BatchesOf(Kinds) ==
    UNION { { [i \in 1..n |-> [id |-> i, name |-> f[i].name,
                               arguments |-> f[i].arguments,
                               user_email |-> f[i].user_email]]
                : f \in [1..n -> Kinds] }
            : n \in 0..MaxBatch }

Batches == BatchesOf(ToolCallKinds)

\* A run that works on calendars pauses with one tool call at a time.
CalendarBatches ==
    { << [id |-> 1, name |-> k.name, arguments |-> k.arguments,
          user_email |-> k.user_email] >> : k \in CalendarCallKinds }

RunningStatuses == {"queued", "in_progress"}
FailureStatuses_none == {}
FailureStatuses_noExpired == {"failed", "cancelled"}
FailureStatuses == {"failed", "cancelled", "expired"}

\* The texts a tool call can be answered with.
TextResults ==
    {"ok", "error_text", "auth_required", "not_found", "not_configured"}

\* newest is the role of the newest message of the thread.
NoRun ==
    [status |-> "none", pause |-> 0, batch |-> << >>, answered |-> FALSE,
     newest |-> "none"]

IdleOrch ==
    [pc |-> "idle", user_id |-> None, thread_id |-> 0,
     run |-> [status |-> "none", pause |-> 0, batch |-> << >>],
     tool_outputs |-> << >>, waited |-> 0, reply |-> None, exc |-> None]

NothingHandled == [pause |-> 0, calls |-> 0, dispatches |-> 0, submits |-> 0]

\* The inbound requests that resolve a thread, and their conversations.
Callers == {"r1", "r2", "r3"}
Conversations == {ConversationId, "c2"}

IdleGoc ==
    [pc |-> "idle", conversation_id |-> None, thread_id |-> 0, after |-> 0,
     created |-> 0, result |-> 0, exc |-> None]

\* No request has reached a calendar provider; graph_client is the Graph
\* client main.py builds when CLIENT_ID, CLIENT_SECRET and TENANT_ID are set.
NoCalendar == [graph_client |-> FALSE, requests |-> {}, events |-> {}]

\* An /api/messages request that has not arrived yet;
\* user_row and assistant_row are the ids of the rows the handler has
\* written, reply the text call_openai_assistant returned, sent the text of
\* the activity sent back, status the status of the HTTP answer.
IdleInbound ==
    [pc |-> "idle", conversation_id |-> None, command |-> FALSE,
     user_row |-> 0, thread_id |-> 0, reply |-> None, assistant_row |-> 0,
     sent |-> None, status |-> 0]

\* No call of get_conversation_history has been answered yet.
NoMemory == [conversation_id |-> None, limit |-> 0, messages |-> << >>]

IdleCall ==
    [pc |-> "idle", user_id |-> None, provider |-> None, row |-> 0,
     before |-> 0, reqs |-> 0, resp |-> None, result |-> None]

InitTok ==
    /\ now = 0
    /\ tokens = << >>
    /\ issued = 0
    /\ rf = [p \in Procs |-> IdleCall]
    /\ read = 0
    /\ thread_map = << >>
    /\ threads = 0
    /\ remote = NoRun
    /\ orch = IdleOrch
    /\ handled = NothingHandled
    /\ goc = [r \in Callers |-> IdleGoc]
    /\ calendar = NoCalendar
    /\ history = << >>
    /\ inb = [r \in Callers |-> IdleInbound]
    /\ memory = NoMemory

(***************************************************************************)
(* The clock advances.                                                     *)
(***************************************************************************)
Tick ==
    /\ now < MaxClock
    /\ now' = now + 1
    /\ UNCHANGED <<tokens, issued, rf, read>>
    /\ UNCHANGED runVars
    /\ UNCHANGED calVars
    /\ UNCHANGED msgVars
    /\ UNCHANGED thrVars

(***************************************************************************)
(* auth_routes.auth_callback: the authorization-code exchange, then the    *)
(* upsert of the row of ("user-demo", state).  A failed exchange, or an    *)
(* insert without refresh_token (the column is NOT NULL), changes nothing. *)
(***************************************************************************)
AuthCallback(prov) ==
    /\ issued < MaxIssued
    /\ \E resp \in TokenResponses(issued + 1, AuthRefreshTokens) :
        LET i == FirstRow("user-demo", prov) IN
        /\ issued' = IF resp.has_access THEN issued + 1 ELSE issued
        /\ IF RaisesForStatus(resp) \/ MissingAccessToken(resp)
           THEN tokens' = tokens
           ELSE IF i # 0
           THEN tokens' = [tokens EXCEPT ![i] =
                    [tokens[i] EXCEPT
                        !.access_token = resp.access_token,
                        !.refresh_token = KeptRefreshToken(tokens[i], resp),
                        !.expires_at = NewExpiresAt(now, resp)]]
           ELSE IF resp.refresh_token = None
           THEN tokens' = tokens
           ELSE tokens' = Append(tokens,
                    [user_id |-> "user-demo", provider |-> prov,
                     access_token |-> resp.access_token,
                     refresh_token |-> resp.refresh_token,
                     expires_at |-> NewExpiresAt(now, resp)])
    /\ UNCHANGED <<now, rf, read>>
    /\ UNCHANGED runVars
    /\ UNCHANGED calVars
    /\ UNCHANGED msgVars
    /\ UNCHANGED thrVars

(***************************************************************************)
(* main.auth_callback: the authorization-code exchange of the bot's own    *)
(* /auth/callback, for the user named by the state parameter.  A body with *)
(* access_token goes to save_user_token, which adds a row whatever the     *)
(* table holds; refresh_token is Optional in the table main.py declares.   *)
(***************************************************************************)
\* save_user_token: session.add of a new UserTokens row, commit.
save_user_token(u, prov, resp, t) ==
    Append(tokens,
           [user_id |-> u, provider |-> prov,
            access_token |-> resp.access_token,
            refresh_token |-> resp.refresh_token,
            expires_at |-> NewExpiresAt(t, resp)])

MainAuthCallback(u, prov) ==
    /\ issued < MaxIssued
    /\ \E resp \in TokenResponses(issued + 1, AuthRefreshTokens) :
        /\ issued' = IF resp.has_access THEN issued + 1 ELSE issued
        /\ tokens' = IF MissingAccessToken(resp) THEN tokens
                      ELSE save_user_token(u, prov, resp, now)
    /\ UNCHANGED <<now, rf, read>>
    /\ UNCHANGED runVars
    /\ UNCHANGED calVars
    /\ UNCHANGED msgVars
    /\ UNCHANGED thrVars

(***************************************************************************)
(* refresh_google_token / refresh_ms_token (the two differ in the provider *)
(* name and the endpoint only).                                            *)
(***************************************************************************)
\* Lines 16-33: load the row; raise when there is none; return the stored
\* access token when it is still valid; otherwise POST the refresh request.
RefreshStart(p, u, prov) ==
    /\ rf[p].pc = "idle"
    /\ LET i == FirstRow(u, prov) IN
        LET call == [IdleCall EXCEPT !.user_id = u, !.provider = prov] IN
        rf' = [rf EXCEPT ![p] =
            IF i = 0
            THEN [call EXCEPT !.pc = "raised", !.result = "not_found"]
            ELSE IF StillValid(tokens[i], now)
            THEN [call EXCEPT !.pc = "returned", !.row = i,
                              !.result = tokens[i].access_token]
            ELSE [call EXCEPT !.pc = "await_post", !.row = i,
                              !.before = tokens[i].expires_at,
                              !.reqs = 1]]
    /\ UNCHANGED <<now, tokens, issued, read>>
    /\ UNCHANGED runVars
    /\ UNCHANGED calVars
    /\ UNCHANGED msgVars
    /\ UNCHANGED thrVars

\* Lines 33-41: the provider answers.  raise_for_status or the missing
\* access_token raises; otherwise assign, commit and return.  The response
\* does not depend on the state and the clock is read at the assignment, so
\* closing the HTTP client between the two is no step of its own.
RefreshRespond(p) ==
    /\ rf[p].pc = "await_post"
    /\ issued < MaxIssued
    /\ \E resp \in TokenResponses(issued + 1, RotatedRefreshTokens) :
        /\ issued' = IF resp.has_access THEN issued + 1 ELSE issued
        /\ IF RaisesForStatus(resp)
           THEN /\ rf' = [rf EXCEPT ![p] =
                        [@ EXCEPT !.pc = "raised", !.resp = resp,
                                  !.result = "http_error"]]
                /\ tokens' = tokens
           ELSE IF MissingAccessToken(resp)
           THEN /\ rf' = [rf EXCEPT ![p] =
                        [@ EXCEPT !.pc = "raised", !.resp = resp,
                                  !.result = "key_error"]]
                /\ tokens' = tokens
           ELSE /\ tokens' = [tokens EXCEPT ![rf[p].row] =
                                RefreshedRow(tokens[rf[p].row], resp, now)]
                /\ rf' = [rf EXCEPT ![p] =
                        [@ EXCEPT !.pc = "returned", !.resp = resp,
                                  !.result = resp.access_token]]
    /\ UNCHANGED <<now, read>>
    /\ UNCHANGED runVars
    /\ UNCHANGED calVars
    /\ UNCHANGED msgVars
    /\ UNCHANGED thrVars

\* The caller takes the result; the coroutine can be called again.
RefreshDone(p) ==
    /\ rf[p].pc \in {"returned", "raised"}
    /\ rf' = [rf EXCEPT ![p] = IdleCall]
    /\ UNCHANGED <<now, tokens, issued, read>>
    /\ UNCHANGED runVars
    /\ UNCHANGED calVars
    /\ UNCHANGED msgVars
    /\ UNCHANGED thrVars

\* listar_eventos_google_tool / criar_evento_google_tool of main.py read
\* their token through get_user_token(user_id, "google"); without a row they
\* return at once.
ToolReadsToken(u) ==
    /\ read = 0
    /\ get_user_token(u, "google") # 0
    /\ read' = get_user_token(u, "google")
    /\ UNCHANGED <<now, tokens, issued, rf>>
    /\ UNCHANGED runVars
    /\ UNCHANGED calVars
    /\ UNCHANGED msgVars
    /\ UNCHANGED thrVars

\* The tool has sent its request with token.access_token and returns.
ToolReturns ==
    /\ read # 0
    /\ read' = 0
    /\ UNCHANGED <<now, tokens, issued, rf>>
    /\ UNCHANGED runVars
    /\ UNCHANGED calVars
    /\ UNCHANGED msgVars
    /\ UNCHANGED thrVars

NextTok ==
    \/ Tick
    \/ \E prov \in Providers : AuthCallback(prov)
    \/ \E p \in Procs, u \in Users, prov \in Providers : RefreshStart(p, u, prov)
    \/ \E p \in Procs : RefreshRespond(p)
    \/ \E p \in Procs : RefreshDone(p)
    \/ \E u \in Users : ToolReadsToken(u)
    \/ ToolReturns

SpecTok == InitTok /\ [][NextTok]_vars

(***************************************************************************)
(* The run orchestrator (main.py): get_or_create_thread, handle_tool_calls *)
(* and call_openai_assistant, against the assistant service.               *)
(***************************************************************************)
\* get_thread_id: the thread_id of the first mapping row of the
\* conversation, 0 for None.
get_thread_id(c) ==
    LET S == {i \in DOMAIN thread_map : thread_map[i].conversation_id = c}
    IN IF S = {} THEN 0 ELSE thread_map[Min(S)].thread_id

\* json.loads(tool_call.function.arguments) raises on a text that is no JSON.
JsonLoadsRaises(arguments) == arguments = "invalid"

\* args.get(...) raises AttributeError when args is no dict.
ArgsGetRaises(arguments) == arguments # "object"

\* The request a calendar tool sends: the provider, list or create, the
\* calendar it addresses and the acting user of the inbound message.
CalendarRequest(prov, name, cal, u) ==
    [provider |-> prov,
     op |-> IF name \in CreateToolNames THEN "create" ELSE "list",
     calendar |-> cal, acting |-> u]

\* The event a create request that the provider accepted has made.
CreatedEvents(prov, name, cal) ==
    IF name \in CreateToolNames
    THEN { [provider |-> prov, calendar |-> cal] } ELSE {}

\* An iteration that raises or answers without a request to a provider.
NoRequest(exc, output) ==
    [exc |-> exc, output |-> output, requests |-> {}, events |-> {}]

\* A request to a provider: it is answered with the events or the created
\* event, or it fails and the except clause of the tool makes a text of it.
Requested(prov, name, cal, u) ==
    { [exc |-> None, output |-> "ok",
       requests |-> {CalendarRequest(prov, name, cal, u)},
       events |-> CreatedEvents(prov, name, cal)],
      [exc |-> None, output |-> "error_text",
       requests |-> {CalendarRequest(prov, name, cal, u)},
       events |-> {}] }

\* What one iteration of the loop of handle_tool_calls comes to for tool call
\* tc and acting user u: an exception that leaves the loop, or the text
\* appended as the output of tc, with the request the tool has sent.
\*  - json.loads is the first statement, for every function name;
\*  - a name without branch keeps result = "Função não encontrada";
\*  - the arguments of a known name are read with args.get;
\*  - resumir_texto_tool catches every exception of its body;
\*  - the Google tools call get_user_token(user_id, "google") before their
\*    try block: a failing query raises, no unexpired row yields the
\*    not-authenticated text, and the HTTP call carries the access token of
\*    the row, so it addresses the primary calendar of the row's user;
\*  - the Graph tools return a text when graph_client is None and else
\*    address the calendar of args.get("user_email") with the credential
\*    of the application.
DispatchOutcomes(tc, u) ==
    IF JsonLoadsRaises(tc.arguments)
    THEN { NoRequest("json_decode_error", None) }
    ELSE IF tc.name \notin KnownToolNames
    THEN { NoRequest(None, "not_found") }
    ELSE IF ArgsGetRaises(tc.arguments)
    THEN { NoRequest("attribute_error", None) }
    ELSE IF tc.name \in GoogleToolNames
    THEN { NoRequest("db_error", None) }
         \cup ( IF get_user_token(u, "google") = 0
                THEN { NoRequest(None, "auth_required") }
                ELSE Requested("google", tc.name,
                        tokens[get_user_token(u, "google")].user_id, u) )
    ELSE IF tc.name \in GraphToolNames
    THEN IF ~calendar.graph_client
         THEN { NoRequest(None, "not_configured") }
         ELSE Requested("microsoft", tc.name, tc.user_email, u)
    ELSE { NoRequest(None, "ok"), NoRequest(None, "error_text") }

\* The provider's calendar after the requests of one tool call: the events
\* the call created are added to those it holds.
EventsAfter_replaced(events, created) ==
    IF created = {} THEN events ELSE created
EventsAfter(events, created) == events \cup created

\* After the tool call that filled the k-th of n outputs the loop goes to the
\* next tool call, after the last one to the submission (main.py 662).
AfterToolCall_noSubmit(k, n) ==
    IF k = n THEN "runs_retrieve" ELSE "tool_call"
AfterToolCall(k, n) ==
    IF k = n THEN "submit_tool_outputs" ELSE "tool_call"

\* An exception inside the try block of call_openai_assistant: the except
\* clause returns the technical-error reply.
Raise_unhandled(kind) ==
    [orch EXCEPT !.pc = "raised", !.exc = kind, !.tool_outputs = << >>]
Raise(kind) ==
    [orch EXCEPT !.pc = "done", !.reply = "error", !.exc = kind,
                 !.tool_outputs = << >>]

\* The counter of polls that found the run queued or in_progress; it stops
\* counting one past MaxWait.
Waited(n) == IF n > MaxWait THEN n ELSE n + 1

\* The credential table and the registries an inbound message can find:
\* user-demo holds an unexpired Google credential, the other user none.
InitTokenTables ==
    { << [user_id |-> "user-demo", provider |-> "google", access_token |-> 1,
          refresh_token |-> "rt1", expires_at |-> 2] >> }

InitThreadMaps ==
    { << >>, << [conversation_id |-> ConversationId, thread_id |-> 1] >> }

InitRun ==
    /\ now = 1
    /\ tokens \in InitTokenTables
    /\ issued = 1
    /\ rf = [p \in Procs |-> IdleCall]
    /\ read = 0
    /\ thread_map \in InitThreadMaps
    /\ threads = Len(thread_map)
    /\ remote = NoRun
    /\ orch = IdleOrch
    /\ handled = NothingHandled
    /\ goc = [r \in Callers |-> IdleGoc]
    /\ calendar = NoCalendar
    /\ history = << >>
    /\ inb = [r \in Callers |-> IdleInbound]
    /\ memory = NoMemory

\* call_openai_assistant is called for a message of user u;
\* get_or_create_thread looks the conversation up (main.py 537-541).
CallStart(u) ==
    /\ orch.pc = "idle"
    /\ \E db_ok \in BOOLEAN :
        orch' = IF ~db_ok
                THEN [Raise("db_error") EXCEPT !.user_id = u]
                ELSE IF get_thread_id(ConversationId) # 0
                THEN [orch EXCEPT !.pc = "threads_retrieve", !.user_id = u,
                                  !.thread_id = get_thread_id(ConversationId)]
                ELSE [orch EXCEPT !.pc = "threads_create", !.user_id = u]
    /\ UNCHANGED <<thread_map, threads, remote, handled>>
    /\ UNCHANGED tokVars
    /\ UNCHANGED calVars
    /\ UNCHANGED msgVars
    /\ UNCHANGED thrVars

\* client.beta.threads.retrieve answers (main.py 540-544): the mapped thread
\* is returned, or the bare except falls through to the creation.
ThreadsRetrieve ==
    /\ orch.pc = "threads_retrieve"
    /\ \E ok \in BOOLEAN :
        orch' = IF ok
                THEN [orch EXCEPT !.pc = "messages_create"]
                ELSE [orch EXCEPT !.pc = "threads_create", !.thread_id = 0]
    /\ UNCHANGED <<thread_map, threads, remote, handled>>
    /\ UNCHANGED tokVars
    /\ UNCHANGED calVars
    /\ UNCHANGED msgVars
    /\ UNCHANGED thrVars

\* client.beta.threads.create answers (main.py 546-548), then
\* save_thread_mapping inserts the row; conversation_id is unique, so the
\* insert raises when the conversation already has a row.
ThreadsCreate ==
    /\ orch.pc = "threads_create"
    /\ \E ok \in BOOLEAN :
        IF ~ok
        THEN /\ orch' = Raise("api_error")
             /\ UNCHANGED <<thread_map, threads>>
        ELSE /\ threads' = threads + 1
             /\ IF get_thread_id(ConversationId) # 0
                THEN /\ orch' = Raise("integrity_error")
                     /\ thread_map' = thread_map
                ELSE /\ thread_map' = Append(thread_map,
                            [conversation_id |-> ConversationId,
                             thread_id |-> threads + 1])
                     /\ orch' = [orch EXCEPT !.pc = "messages_create",
                                             !.thread_id = threads + 1]
    /\ UNCHANGED <<remote, handled>>
    /\ UNCHANGED tokVars
    /\ UNCHANGED calVars
    /\ UNCHANGED msgVars
    /\ UNCHANGED thrVars

\* After the user message is appended the run is created (main.py 685).
AfterMessagesCreate_noRun == "runs_retrieve"
AfterMessagesCreate == "runs_create"

\* client.beta.threads.messages.create answers (main.py 679-683).
MessagesCreate ==
    /\ orch.pc = "messages_create"
    /\ \E ok \in BOOLEAN :
        IF ok
        THEN /\ orch' = [orch EXCEPT !.pc = AfterMessagesCreate]
             /\ remote' = [remote EXCEPT !.newest = "user"]
        ELSE /\ orch' = Raise("api_error")
             /\ remote' = remote
    /\ UNCHANGED <<thread_map, threads, handled>>
    /\ UNCHANGED tokVars
    /\ UNCHANGED calVars
    /\ UNCHANGED msgVars
    /\ UNCHANGED thrVars

\* client.beta.threads.runs.create answers (main.py 685-688).
RunsCreate ==
    /\ orch.pc = "runs_create"
    /\ \E ok \in BOOLEAN :
        IF ok
        THEN /\ remote' = [remote EXCEPT !.status = "queued"]
             /\ orch' = [orch EXCEPT !.pc = "runs_retrieve",
                                     !.run.status = "queued"]
        ELSE /\ orch' = Raise("api_error")
             /\ remote' = remote
    /\ UNCHANGED <<thread_map, threads, handled>>
    /\ UNCHANGED tokVars
    /\ UNCHANGED calVars
    /\ UNCHANGED msgVars
    /\ UNCHANGED thrVars

\* handle_tool_calls for a pause (main.py 552-555, 662): without required
\* action, or with an empty list of tool calls (both are the empty batch
\* here), tool_outputs stays empty, nothing is submitted and the function
\* returns to the loop; else the for loop starts at the first tool call.
AfterRequiresAction_submitsEmpty(batch) ==
    IF batch = << >> THEN "submit_tool_outputs" ELSE "tool_call"
AfterRequiresAction(batch) ==
    IF batch = << >> THEN "runs_retrieve" ELSE "tool_call"

\* One turn of the while True loop (main.py 691-704): runs.retrieve answers
\* and the status is tested.  completed leaves the loop; requires_action
\* enters handle_tool_calls (552-555), which starts an empty tool_outputs and
\* goes to the first tool call, or with an empty batch returns at once;
\* failed / cancelled / expired return the failure reply; any other status
\* sleeps and polls again.  Nothing ends the loop otherwise.
RunsRetrieve ==
    /\ orch.pc = "runs_retrieve"
    /\ \E ok \in BOOLEAN :
        LET run == [status |-> remote.status, pause |-> remote.pause,
                    batch |-> remote.batch]
        IN
        IF ~ok
        THEN /\ orch' = Raise("api_error")
             /\ handled' = handled
        ELSE IF run.status = "completed"
        THEN /\ orch' = [orch EXCEPT !.pc = "messages_list", !.run = run]
             /\ handled' = handled
        ELSE IF run.status = "requires_action"
        THEN /\ orch' = [orch EXCEPT
                            !.pc = AfterRequiresAction(run.batch),
                            !.run = run, !.tool_outputs = << >>,
                            !.waited = 0]
             /\ handled' = IF handled.pause = run.pause THEN handled
                           ELSE [pause |-> run.pause,
                                 calls |-> Len(run.batch),
                                 dispatches |-> 0, submits |-> 0]
        ELSE IF run.status \in FailureStatuses
        THEN /\ orch' = [orch EXCEPT !.pc = "done", !.run = run,
                                     !.reply = "terminal_failure"]
             /\ handled' = handled
        ELSE /\ orch' = [orch EXCEPT !.run = run,
                                     !.waited = Waited(orch.waited)]
             /\ handled' = handled
    /\ UNCHANGED <<thread_map, threads, remote>>
    /\ UNCHANGED tokVars
    /\ UNCHANGED calVars
    /\ UNCHANGED msgVars
    /\ UNCHANGED thrVars

\* The for loop takes the tool calls in the order of the list (main.py 555):
\* the call of an iteration is the one after those that have their output.
NextToolCall_lastFirst(batch, outputs) == batch[Len(batch) - Len(outputs)]
NextToolCall(batch, outputs) == batch[Len(outputs) + 1]

\* One iteration of the for loop of handle_tool_calls (main.py 555-660) for
\* the next tool call of the batch; after the last one the outputs go to the
\* submission (662).
ToolCall ==
    /\ orch.pc = "tool_call"
    /\ LET tc == NextToolCall(orch.run.batch, orch.tool_outputs) IN
       \E o \in DispatchOutcomes(tc, orch.user_id) :
        /\ orch' = IF o.exc # None
                   THEN Raise(o.exc)
                   ELSE [orch EXCEPT
                           !.tool_outputs = Append(@,
                               [tool_call_id |-> tc.id, output |-> o.output]),
                           !.pc = AfterToolCall(Len(orch.tool_outputs) + 1,
                                                Len(orch.run.batch))]
        /\ calendar' = [calendar EXCEPT
                            !.requests = @ \cup o.requests,
                            !.events = EventsAfter(@, o.events)]
    /\ handled' = [handled EXCEPT !.dispatches = @ + 1]
    /\ UNCHANGED <<thread_map, threads, remote>>
    /\ UNCHANGED tokVars
    /\ UNCHANGED msgVars
    /\ UNCHANGED thrVars

\* client.beta.threads.runs.submit_tool_outputs (main.py 662-667).  The
\* service takes outputs for the pause the run is waiting in, once; any other
\* submission is answered with an error, which raises.  Then the loop of
\* call_openai_assistant sleeps and polls again.
SubmitToolOutputs ==
    /\ orch.pc = "submit_tool_outputs"
    /\ handled' = [handled EXCEPT !.submits = @ + 1]
    /\ \E ok \in BOOLEAN :
        IF /\ ok
           /\ remote.status = "requires_action"
           /\ remote.pause = orch.run.pause
           /\ ~remote.answered
        THEN /\ remote' = [remote EXCEPT !.answered = TRUE]
             /\ orch' = [orch EXCEPT !.pc = "runs_retrieve",
                                     !.tool_outputs = << >>]
        ELSE /\ remote' = remote
             /\ orch' = Raise("api_error")
    /\ UNCHANGED <<thread_map, threads>>
    /\ UNCHANGED tokVars
    /\ UNCHANGED calVars
    /\ UNCHANGED msgVars
    /\ UNCHANGED thrVars

\* client.beta.threads.messages.list(limit=1) answers (main.py 707-719): the
\* text of the newest message when an assistant wrote it, else the fallback.
MessagesList ==
    /\ orch.pc = "messages_list"
    /\ \E ok \in BOOLEAN :
        orch' = IF ~ok THEN Raise("api_error")
                ELSE [orch EXCEPT !.pc = "done",
                        !.reply = IF remote.newest = "assistant" THEN "text"
                                  ELSE "fallback"]
    /\ UNCHANGED <<thread_map, threads, remote, handled>>
    /\ UNCHANGED tokVars
    /\ UNCHANGED calVars
    /\ UNCHANGED msgVars
    /\ UNCHANGED thrVars

(***************************************************************************)
(* The assistant service moves the run while the call is waiting for it.   *)
(***************************************************************************)
RunStarts ==
    /\ orch.pc # "done"
    /\ remote.status = "queued"
    /\ remote' = [remote EXCEPT !.status = "in_progress"]
    /\ UNCHANGED <<thread_map, threads, orch, handled>>
    /\ UNCHANGED tokVars
    /\ UNCHANGED calVars
    /\ UNCHANGED msgVars
    /\ UNCHANGED thrVars

\* The run pauses with a batch of tool calls.
RunPauses(batch) ==
    /\ orch.pc # "done"
    /\ remote.status = "in_progress"
    /\ remote.pause < MaxPauses
    /\ remote' = [remote EXCEPT !.status = "requires_action",
                                !.pause = remote.pause + 1,
                                !.batch = batch, !.answered = FALSE]
    /\ UNCHANGED <<thread_map, threads, orch, handled>>
    /\ UNCHANGED tokVars
    /\ UNCHANGED calVars
    /\ UNCHANGED msgVars
    /\ UNCHANGED thrVars

\* The service goes on with the run some time after it took the outputs;
\* until then a retrieve still shows the pause.
RunResumes ==
    /\ orch.pc # "done"
    /\ remote.status = "requires_action"
    /\ remote.answered
    /\ remote' = [remote EXCEPT !.status = "queued", !.batch = << >>,
                                !.answered = FALSE]
    /\ UNCHANGED <<thread_map, threads, orch, handled>>
    /\ UNCHANGED tokVars
    /\ UNCHANGED calVars
    /\ UNCHANGED msgVars
    /\ UNCHANGED thrVars

\* The run ends; a completed run has appended the assistant's reply to the
\* thread.
RunEnds(status) ==
    /\ orch.pc # "done"
    /\ remote.status = "in_progress"
    /\ remote' = [remote EXCEPT
                    !.status = status,
                    !.newest = IF status = "completed" THEN "assistant"
                               ELSE @]
    /\ UNCHANGED <<thread_map, threads, orch, handled>>
    /\ UNCHANGED tokVars
    /\ UNCHANGED calVars
    /\ UNCHANGED msgVars
    /\ UNCHANGED thrVars

\* A pause nobody answers expires.
RunExpires ==
    /\ orch.pc # "done"
    /\ remote.status = "requires_action"
    /\ ~remote.answered
    /\ remote' = [remote EXCEPT !.status = "expired", !.batch = << >>]
    /\ UNCHANGED <<thread_map, threads, orch, handled>>
    /\ UNCHANGED tokVars
    /\ UNCHANGED calVars
    /\ UNCHANGED msgVars
    /\ UNCHANGED thrVars

\* Another inbound request of the conversation appends its user message to
\* the thread (main.py 679-683 of a concurrent call_openai_assistant) after
\* the assistant's reply.
UserMessageAppended ==
    /\ orch.pc # "done"
    /\ remote.newest = "assistant"
    /\ remote' = [remote EXCEPT !.newest = "user"]
    /\ UNCHANGED <<thread_map, threads, orch, handled>>
    /\ UNCHANGED tokVars
    /\ UNCHANGED calVars
    /\ UNCHANGED msgVars
    /\ UNCHANGED thrVars

NextRun ==
    \/ \E u \in Users : CallStart(u)
    \/ ThreadsRetrieve
    \/ ThreadsCreate
    \/ MessagesCreate
    \/ RunsCreate
    \/ RunsRetrieve
    \/ ToolCall
    \/ SubmitToolOutputs
    \/ MessagesList
    \/ RunStarts
    \/ \E batch \in Batches : RunPauses(batch)
    \/ RunResumes
    \/ \E status \in {"completed"} \cup FailureStatuses : RunEnds(status)
    \/ RunExpires
    \/ UserMessageAppended

SpecRun == InitRun /\ [][NextRun]_vars

(***************************************************************************)
(* Properties of the run orchestrator, checked under SpecRun.              *)
(***************************************************************************)
\* C1: for every requires_action pause whose batch holds N >= 1 tool calls,
\* the handling of the pause ends in no other way than by the submission of
\* N outputs, the i-th carrying the id of the i-th call: N dispatches, no
\* omission, no partial batch, also when a dispatch fails.
C1_WholeBatchSubmitted ==
    [][ ( /\ orch.pc \in {"tool_call", "submit_tool_outputs"}
          /\ orch'.pc \notin {"tool_call", "submit_tool_outputs"} )
        => ( /\ orch.pc = "submit_tool_outputs"
             /\ Len(orch.tool_outputs) = Len(orch.run.batch)
             /\ \A i \in DOMAIN orch.tool_outputs :
                    orch.tool_outputs[i].tool_call_id = orch.run.batch[i].id
             /\ handled'.submits >= 1 )
      ]_vars

\* C2: for one requires_action pause the tool calls are dispatched once and
\* submit_tool_outputs is called at most once, whatever the polls report.
C2_SubmitOncePerPause ==
    /\ handled.submits <= 1
    /\ handled.dispatches <= handled.calls

\* C3: once more than MaxWait polls in a row have found the run queued or
\* in_progress, call_openai_assistant has stopped polling and returned.
C3_PollingStopsAfterMaxWait ==
    orch.waited > MaxWait => orch.pc = "done"

\* C19: when the run was observed completed and the message list is
\* fetched, call_openai_assistant returns the text of the assistant's
\* message, also when a user message was appended to the thread after it.
C19_ReturnsAssistantText ==
    [][ ( /\ orch.pc = "messages_list"
          /\ orch'.pc = "done"
          /\ orch'.exc = None )
        => orch'.reply = "text"
      ]_vars

\* C20: a poll that observes failed, cancelled or expired ends the call with
\* the failure reply for that status, and after the return the call polls no
\* more, dispatches and submits nothing and fetches no message.
C20_FailureStatusEndsCall ==
    [][ /\ ( /\ orch.pc = "runs_retrieve"
              /\ orch' # orch
              /\ orch'.exc = None
              /\ remote.status \in {"failed", "cancelled", "expired"} )
            => ( /\ orch'.pc = "done"
                 /\ orch'.reply = "terminal_failure"
                 /\ orch'.run.status = remote.status )
        /\ orch.pc = "done"
            => (orch' = orch /\ handled' = handled /\ remote' = remote)
      ]_vars

C20_Witness ==
    /\ orch.pc = "done"
    /\ orch.reply = "terminal_failure"
    /\ orch.run.status = "expired"
    /\ handled.submits = 1

\* C32: in a call of call_openai_assistant the user message is appended to
\* the resolved thread before any run exists; runs.create is called only
\* after an append that succeeded and only that once; the run comes into
\* being by that call alone; and the call polls, dispatches, submits or
\* lists only when its run exists.
C32_AppendThenOneRun ==
    [][ /\ (orch.pc = "messages_create" /\ orch'.pc # orch.pc)
            => (orch.thread_id # 0 /\ remote.status = "none")
        /\ (orch'.pc = "runs_create" /\ orch.pc # "runs_create")
            => (orch.pc = "messages_create" /\ remote'.newest = "user")
        /\ (orch.pc = "messages_create" /\ orch'.pc = "done")
            => remote'.status = "none"
        /\ (remote.status = "none" /\ remote'.status # "none")
            => ( /\ orch.pc = "runs_create" /\ orch'.pc = "runs_retrieve"
                 /\ remote.newest = "user" )
        /\ remote.status # "none"
            => orch'.pc \notin {"messages_create", "runs_create"}
        /\ orch'.pc \in {"runs_retrieve", "tool_call", "submit_tool_outputs",
                        "messages_list"}
            => remote'.status # "none"
      ]_vars

\* The call has appended to the thread it created and polls its run.
C32_Witness ==
    /\ orch.pc = "runs_retrieve"
    /\ orch.thread_id = threads /\ threads > 0
    /\ get_thread_id(ConversationId) = orch.thread_id
    /\ remote.status = "queued" /\ remote.pause = 0
    /\ remote.newest = "user"

\* C33: call_openai_assistant never raises.  An exception at any of its
\* steps (the thread lookup, retrieval or creation with its mapping insert,
\* the append, the run creation, a poll, a tool call's argument parsing, the
\* submission, the listing) ends the call with the technical-error reply;
\* a call ends in no other way than with a reply, and a call that has ended
\* polls, dispatches and submits nothing more.
C33_NeverRaises ==
    [][ /\ (orch.exc = None /\ orch'.exc # None)
            => ( /\ orch'.pc = "done" /\ orch'.reply = "error"
                 /\ remote' = remote /\ thread_map' = thread_map )
        /\ orch'.pc \in {"idle", "threads_retrieve", "threads_create",
                        "messages_create", "runs_create", "runs_retrieve",
                        "tool_call", "submit_tool_outputs", "messages_list",
                        "done"}
        /\ (orch'.pc = "done") = (orch'.reply # None)
        /\ orch.pc = "done"
            => (orch' = orch /\ handled' = handled /\ calendar' = calendar)
      ]_vars

\* The arguments of a tool call of the second pause were no JSON: the call
\* has ended with the error reply and the run is left waiting for outputs.
C33_Witness ==
    /\ orch.pc = "done" /\ orch.reply = "error"
    /\ orch.exc = "json_decode_error"
    /\ remote.status = "requires_action" /\ ~remote.answered
    /\ remote.pause = 2 /\ handled.pause = 2 /\ handled.submits = 0

\* The run under fair scheduling.  The event loop resumes the coroutine when
\* the call it awaits is answered, and every call to the service is answered
\* or fails, so each step of the call is taken once it is possible.  The
\* service takes up a queued run, goes on with a run whose pause got its
\* outputs, and ends a run it is working on; nothing is assumed about a
\* pause that nobody answers, and no poll is assumed to fail: the fairness
\* of the polling is that of the polls the service answers.
RunsRetrieveAnswered == RunsRetrieve /\ orch'.exc = None

\* The batches of the run: calls of a tool that answers and calls whose
\* arguments are no JSON.
LiveCallKinds ==
    { [name |-> "resumir_texto", arguments |-> "object", user_email |-> None],
      [name |-> "desconhecida", arguments |-> "invalid", user_email |-> None] }

LiveBatches == BatchesOf(LiveCallKinds)

NextLive ==
    \/ \E u \in Users : CallStart(u)
    \/ ThreadsRetrieve
    \/ ThreadsCreate
    \/ MessagesCreate
    \/ RunsCreate
    \/ RunsRetrieve
    \/ ToolCall
    \/ SubmitToolOutputs
    \/ MessagesList
    \/ RunStarts
    \/ \E batch \in LiveBatches : RunPauses(batch)
    \/ RunResumes
    \/ \E status \in {"completed"} \cup FailureStatuses : RunEnds(status)
    \/ RunExpires
    \/ UserMessageAppended

FairRun ==
    /\ InitRun /\ [][NextLive]_vars
    /\ WF_vars(ThreadsRetrieve)
    /\ WF_vars(ThreadsCreate)
    /\ WF_vars(MessagesCreate)
    /\ WF_vars(RunsCreate)
    /\ WF_vars(RunsRetrieveAnswered)
    /\ WF_vars(ToolCall)
    /\ WF_vars(SubmitToolOutputs)
    /\ WF_vars(MessagesList)
    /\ WF_vars(RunStarts)
    /\ WF_vars(RunResumes)
    /\ WF_vars(\E status \in {"completed"} \cup FailureStatuses :
                    RunEnds(status))

\* Every pause of the run carries at least one tool call.
PausesCarryCalls ==
    remote.status = "requires_action" => remote.batch # << >>

\* C34: when every pause carries at least one tool call, a call of
\* call_openai_assistant that has begun eventually returns a reply.
C34_CallReturnsReply ==
    ([]PausesCarryCalls)
        => ((orch.pc # "idle") ~> (orch.pc = "done" /\ orch.reply # None))

\* The call has answered two pauses and returned the assistant's text.
C34_Witness ==
    /\ orch.pc = "done" /\ orch.reply = "text"
    /\ remote.status = "completed"
    /\ handled.pause = 2 /\ handled.calls = 2 /\ handled.submits = 1

\* C35: submit_tool_outputs is never called with an empty list of outputs.
\* A poll that finds a pause without tool calls submits and dispatches
\* nothing and leaves the call polling the same run.
C35_NoEmptySubmission ==
    [][ /\ orch'.pc = "submit_tool_outputs" => orch'.tool_outputs # << >>
        /\ handled'.submits > handled.submits
            => (orch.pc = "submit_tool_outputs" /\ orch.tool_outputs # << >>)
        /\ ( /\ orch.pc = "runs_retrieve"
             /\ orch'.run # orch.run
             /\ orch'.run.status = "requires_action"
             /\ orch'.run.batch = << >> )
            => ( /\ orch'.pc = "runs_retrieve"
                 /\ orch'.thread_id = orch.thread_id
                 /\ orch'.tool_outputs = << >>
                 /\ handled'.submits = 0 /\ handled'.dispatches = 0
                 /\ remote' = remote )
      ]_vars

\* The call has answered a first pause, has found the second pause without
\* tool calls and polls on.
C35_Witness ==
    /\ orch.pc = "runs_retrieve"
    /\ orch.run.status = "requires_action" /\ orch.run.batch = << >>
    /\ orch.run.pause = 2 /\ handled.pause = 2
    /\ handled.calls = 0 /\ handled.submits = 0
    /\ remote.status = "requires_action" /\ remote.pause = 2

\* The tool call the loop of handle_tool_calls is at, and the output the
\* iteration has appended.
DispatchedCall == orch.run.batch[Len(orch.tool_outputs) + 1]
AppendedOutput == orch'.tool_outputs[Len(orch'.tool_outputs)]

\* C36: the tool calls of a batch are dispatched one at a time in the order
\* of the batch, the k-th only when the k-1 before it have their outputs,
\* each output is appended after those already there and carries the id of
\* its call, and the outputs are submitted in the order of the batch.
C36_DispatchInBatchOrder ==
    [][ /\ (orch.pc = "tool_call" /\ orch' # orch /\ orch'.exc = None)
            => ( /\ Len(orch'.tool_outputs) = Len(orch.tool_outputs) + 1
                 /\ SubSeq(orch'.tool_outputs, 1, Len(orch.tool_outputs))
                        = orch.tool_outputs
                 /\ AppendedOutput.tool_call_id = DispatchedCall.id
                 /\ orch'.run = orch.run )
        /\ handled'.dispatches > handled.dispatches
            => ( /\ orch.pc = "tool_call"
                 /\ handled'.dispatches = handled.dispatches + 1 )
        /\ orch'.pc = "submit_tool_outputs"
            => ( /\ Len(orch'.tool_outputs) = Len(orch'.run.batch)
                 /\ \A i \in DOMAIN orch'.tool_outputs :
                        orch'.tool_outputs[i].tool_call_id
                            = orch'.run.batch[i].id )
      ]_vars

\* A batch of two calls of different tools is ready for submission.
C36_Witness ==
    /\ orch.pc = "submit_tool_outputs"
    /\ Len(orch.run.batch) = 2 /\ Len(orch.tool_outputs) = 2
    /\ orch.run.batch[1].name = "desconhecida"
    /\ orch.run.batch[2].name = "resumir_texto"
    /\ orch.tool_outputs[1].output = "not_found"
    /\ orch.tool_outputs[2].output = "error_text"
    /\ handled.dispatches = 2

\* C22: the iteration for a tool call whose function name has no branch
\* does not raise and appends the fixed not-found text as the output of the
\* call, so that the loop goes on to the next call or to the submission.
C22_UnknownNameGetsFixedResult ==
    [][ ( /\ orch.pc = "tool_call"
          /\ orch' # orch
          /\ DispatchedCall.name \notin KnownToolNames )
        => ( /\ orch'.exc = None
             /\ orch'.pc \in {"tool_call", "submit_tool_outputs"}
             /\ Len(orch'.tool_outputs) = Len(orch.tool_outputs) + 1
             /\ AppendedOutput.tool_call_id = DispatchedCall.id
             /\ AppendedOutput.output = "not_found" )
      ]_vars

\* C29: the batches of one run are handled one after the other: the
\* dispatch of a batch begins at a poll and with no output collected;
\* polling is resumed from a batch only by the submission of all its
\* outputs; and when the call takes up a later pause, the outputs of the
\* pause before it have been submitted, once, after one dispatch per call.
C29_BatchesInSequence ==
    [][ /\ (orch.pc # "tool_call" /\ orch'.pc = "tool_call")
            => ( /\ orch.pc = "runs_retrieve"
                 /\ orch'.tool_outputs = << >>
                 /\ orch'.run.pause = remote.pause )
        /\ ( /\ orch.pc \in {"tool_call", "submit_tool_outputs"}
             /\ orch'.pc = "runs_retrieve" )
            => ( /\ orch.pc = "submit_tool_outputs"
                 /\ Len(orch.tool_outputs) = Len(orch.run.batch)
                 /\ handled'.submits = 1
                 /\ remote'.answered )
        /\ (handled.pause # 0 /\ handled'.pause # handled.pause)
            => ( /\ handled'.pause = handled.pause + 1
                 /\ handled.submits = 1
                 /\ handled.dispatches = handled.calls )
      ]_vars

C29_Witness ==
    /\ orch.pc = "submit_tool_outputs"
    /\ orch.run.pause = 2
    /\ handled.pause = 2
    /\ Len(orch.tool_outputs) = 2

\* C4: the dispatch of a tool call never raises: every iteration of the loop
\* of handle_tool_calls appends an output with the id of its call and a text
\* as result.
C4_DispatchNeverRaises ==
    [][ (orch.pc = "tool_call" /\ orch' # orch)
        => ( /\ Len(orch'.tool_outputs) = Len(orch.tool_outputs) + 1
             /\ orch'.tool_outputs[Len(orch'.tool_outputs)].tool_call_id
                    = orch.run.batch[Len(orch.tool_outputs) + 1].id
             /\ orch'.tool_outputs[Len(orch'.tool_outputs)].output
                    \in TextResults )
      ]_vars

(***************************************************************************)
(* The thread registry: get_or_create_thread (main.py 535-548) called by   *)
(* the inbound requests of Callers, one after the other or at once.        *)
(***************************************************************************)
\* The mapping rows of conversation c.
MappingsOf(c) ==
    {i \in DOMAIN thread_map : thread_map[i].conversation_id = c}

\* save_thread_mapping: session.add of a new ThreadMapping row, commit.
\* conversation_id is declared unique (main.py 83): the commit of a second
\* row for the conversation raises and the table stays as it was.
save_thread_mapping_noUnique(c, thread_id) ==
    [ok |-> TRUE,
     table |-> Append(thread_map,
                      [conversation_id |-> c, thread_id |-> thread_id])]
save_thread_mapping_upsert(c, thread_id) ==
    IF MappingsOf(c) # {}
    THEN [ok |-> TRUE,
          table |-> [thread_map EXCEPT
                        ![Min(MappingsOf(c))].thread_id = thread_id]]
    ELSE [ok |-> TRUE,
          table |-> Append(thread_map,
                           [conversation_id |-> c, thread_id |-> thread_id])]
save_thread_mapping_skipped(c, thread_id) ==
    [ok |-> MappingsOf(c) = {}, table |-> thread_map]
save_thread_mapping(c, thread_id) ==
    IF MappingsOf(c) # {}
    THEN [ok |-> FALSE, table |-> thread_map]
    ELSE [ok |-> TRUE,
          table |-> Append(thread_map,
                           [conversation_id |-> c, thread_id |-> thread_id])]

\* The thread id an earlier call for conversation c has returned, 0 when no
\* call for c has returned yet.
ReturnedBefore(c) ==
    LET S == {q \in Callers : goc[q].pc = "returned"
                              /\ goc[q].conversation_id = c}
    IN IF S = {} THEN 0 ELSE goc[CHOOSE q \in S : TRUE].result

\* Line 537-541: get_thread_id, then the retrieve of the mapped thread or,
\* without mapping, the creation.
GocStart(r, c) ==
    /\ goc[r].pc = "idle"
    /\ \E db_ok \in BOOLEAN :
        LET call == [IdleGoc EXCEPT !.conversation_id = c,
                                    !.after = ReturnedBefore(c)] IN
        goc' = [goc EXCEPT ![r] =
            IF ~db_ok
            THEN [call EXCEPT !.pc = "raised", !.exc = "db_error"]
            ELSE IF get_thread_id(c) # 0
            THEN [call EXCEPT !.pc = "threads_retrieve",
                              !.thread_id = get_thread_id(c)]
            ELSE [call EXCEPT !.pc = "threads_create"]]
    /\ UNCHANGED <<thread_map, threads, remote, orch, handled>>
    /\ UNCHANGED tokVars
    /\ UNCHANGED calVars
    /\ UNCHANGED msgVars

\* Lines 540-544: client.beta.threads.retrieve answers; the mapped id is
\* returned, or the bare except goes on to the creation.
GocRetrieve(r) ==
    /\ goc[r].pc = "threads_retrieve"
    /\ \E ok \in BOOLEAN :
        goc' = [goc EXCEPT ![r] =
            IF ok
            THEN [@ EXCEPT !.pc = "returned", !.result = goc[r].thread_id]
            ELSE [@ EXCEPT !.pc = "threads_create"]]
    /\ UNCHANGED <<thread_map, threads, remote, orch, handled>>
    /\ UNCHANGED tokVars
    /\ UNCHANGED calVars
    /\ UNCHANGED msgVars

\* Lines 546-548: client.beta.threads.create answers, save_thread_mapping,
\* return thread.id.
GocCreate(r) ==
    /\ goc[r].pc = "threads_create"
    /\ \E ok \in BOOLEAN :
        IF ~ok
        THEN /\ goc' = [goc EXCEPT ![r] =
                        [@ EXCEPT !.pc = "raised", !.exc = "api_error"]]
             /\ UNCHANGED <<thread_map, threads>>
        ELSE LET saved == save_thread_mapping(goc[r].conversation_id,
                                              threads + 1) IN
             /\ threads' = threads + 1
             /\ thread_map' = saved.table
             /\ goc' = [goc EXCEPT ![r] =
                    IF saved.ok
                    THEN [@ EXCEPT !.pc = "returned", !.created = 1,
                                   !.result = threads + 1]
                    ELSE [@ EXCEPT !.pc = "raised", !.created = 1,
                                   !.exc = "integrity_error"]]
    /\ UNCHANGED <<remote, orch, handled>>
    /\ UNCHANGED tokVars
    /\ UNCHANGED calVars
    /\ UNCHANGED msgVars

NextThread ==
    \/ \E r \in Callers, c \in Conversations : GocStart(r, c)
    \/ \E r \in Callers : GocRetrieve(r)
    \/ \E r \in Callers : GocCreate(r)

SpecThread == InitTok /\ [][NextThread]_vars

(***************************************************************************)
(* Properties of the thread registry, checked under SpecThread.            *)
(***************************************************************************)
GocFinished(r) == goc[r].pc \in {"returned", "raised"}

\* C14: a get_or_create_thread call made after a call for the same
\* conversation has returned T returns T as well and creates no remote
\* thread (a call that ends on a failed database query or a failed creation
\* request is left aside).
C14_SecondCallSameThread ==
    \A r \in Callers :
        ( /\ GocFinished(r)
          /\ goc[r].after # 0
          /\ goc[r].exc \notin {"db_error", "api_error"} )
            => ( /\ goc[r].pc = "returned"
                 /\ goc[r].result = goc[r].after
                 /\ goc[r].created = 0 )

\* C15: in every reachable state, also after racing calls, a conversation
\* has at most one mapping row.
C15_OneMappingPerConversation ==
    \A c \in Conversations : Cardinality(MappingsOf(c)) <= 1

C15_Witness ==
    \E r, q \in Callers :
        /\ r # q
        /\ goc[r].conversation_id = goc[q].conversation_id
        /\ goc[r].pc = "returned" /\ goc[r].created = 1
        /\ goc[q].pc = "raised" /\ goc[q].exc = "integrity_error"
        /\ goc[q].thread_id = 0

\* C16: once a conversation is mapped to a thread no step maps it to another
\* one, and every call that returns while the conversation is mapped returns
\* the mapped thread.
C16_MappingNeverRepointed ==
    [][ /\ \A c \in Conversations :
            get_thread_id(c) # 0
                => ( /\ MappingsOf(c) \subseteq DOMAIN thread_map'
                     /\ \A i \in MappingsOf(c) :
                            thread_map'[i] = thread_map[i] )
        /\ \A r \in Callers :
            ( /\ goc[r].pc # "returned" /\ goc'[r].pc = "returned"
              /\ get_thread_id(goc'[r].conversation_id) # 0 )
                => goc'[r].result = get_thread_id(goc'[r].conversation_id)
      ]_vars

C16_Witness ==
    \E r, q \in Callers :
        /\ r # q
        /\ goc[r].pc = "returned" /\ goc[r].created = 1
        /\ goc[q].pc = "returned" /\ goc[q].created = 0
        /\ goc[q].result = goc[r].result
        /\ threads > 1

\* C17: when two calls race on a conversation without mapping, both return
\* a thread id, and one mapping of the conversation survives.
C17_RaceTolerated ==
    \A r, q \in Callers :
        ( /\ r # q
          /\ goc[r].conversation_id = goc[q].conversation_id
          /\ GocFinished(r) /\ goc[r].thread_id = 0 /\ goc[r].created = 1
          /\ GocFinished(q) /\ goc[q].thread_id = 0 /\ goc[q].created = 1
          /\ goc[r].after = 0 /\ goc[q].after = 0 )
        => ( /\ goc[r].pc = "returned"
             /\ goc[q].pc = "returned"
             /\ Cardinality(MappingsOf(goc[r].conversation_id)) = 1 )

\* C18: at the step at which get_or_create_thread returns T for conversation
\* C the registry maps C to T.
C18_ReturnedThreadIsMapped ==
    [][ \A r \in Callers :
        (goc[r].pc # "returned" /\ goc'[r].pc = "returned")
            => ( /\ goc'[r].result # 0
                 /\ \E i \in DOMAIN thread_map' :
                        /\ thread_map'[i].conversation_id
                                = goc'[r].conversation_id
                        /\ thread_map'[i].thread_id = goc'[r].result )
      ]_vars

C18_Witness ==
    \E r \in Callers :
        /\ goc[r].pc = "returned" /\ goc[r].created = 1
        /\ get_thread_id(goc[r].conversation_id) = goc[r].result

\* C37: a call that found a mapping and could not retrieve the mapped thread
\* goes on to the creation; when the service creates the thread the insert
\* of the second mapping row fails, so the call raises instead of returning
\* a thread id and the mapping still names the original thread.  Every call
\* for the conversation that cannot retrieve the thread ends so.
C37_UnretrievableThreadEndsInError ==
    [][ \A r \in Callers :
        /\ ( /\ goc[r].pc = "threads_retrieve"
             /\ goc'[r] # goc[r]
             /\ goc'[r].pc # "returned" )
            => ( /\ goc'[r].pc = "threads_create"
                 /\ goc'[r].thread_id = goc[r].thread_id
                 /\ thread_map' = thread_map )
        /\ ( /\ goc[r].pc = "threads_create"
             /\ goc[r].thread_id # 0
             /\ goc'[r] # goc[r] )
            => ( /\ goc'[r].pc = "raised"
                 /\ goc'[r].result = 0
                 /\ thread_map' = thread_map
                 /\ get_thread_id(goc[r].conversation_id) = goc[r].thread_id
                 /\ threads' = threads + 1
                        => goc'[r].exc = "integrity_error"
                 /\ threads' = threads
                        => goc'[r].exc = "api_error" )
      ]_vars

\* The first call made the mapping to thread 1; two later calls could not
\* retrieve thread 1, created a thread each and raised.
C37_Witness ==
    \E r, q \in Callers :
        /\ r # q
        /\ goc[r].pc = "raised" /\ goc[r].exc = "integrity_error"
        /\ goc[q].pc = "raised" /\ goc[q].exc = "integrity_error"
        /\ goc[r].conversation_id = goc[q].conversation_id
        /\ goc[r].thread_id = 1 /\ goc[q].thread_id = 1
        /\ goc[r].after = 1 /\ goc[q].after = 1
        /\ threads = 3
        /\ Len(thread_map) = 1 /\ thread_map[1].thread_id = 1

(***************************************************************************)
(* The credential table under the authorizations of both callbacks and the *)
(* refresh calls of one coroutine.                                         *)
(***************************************************************************)
Refresher == "p1"

NextAuth ==
    \/ Tick
    \/ \E prov \in Providers : AuthCallback(prov)
    \/ \E u \in Users, prov \in Providers : MainAuthCallback(u, prov)
    \/ \E u \in Users, prov \in Providers : RefreshStart(Refresher, u, prov)
    \/ RefreshRespond(Refresher)
    \/ RefreshDone(Refresher)

SpecAuth == InitTok /\ [][NextAuth]_vars

(***************************************************************************)
(* Properties of the credential store, checked under SpecTok.              *)
(***************************************************************************)
\* Steps of coroutine p.
Returns(p) == rf[p].pc # "returned" /\ rf'[p].pc = "returned"
Answered(p) == rf[p].pc = "await_post" /\ rf'[p].pc # "await_post"
Commits(p) == rf[p].pc = "await_post" /\ rf'[p].pc = "returned"
Called(p) == rf[p].pc = "idle" /\ rf'[p].pc # "idle"

\* A refresh response that is an error or carries no access_token.
BadResponse(resp) == resp.status # "2xx" \/ ~resp.has_access

\* C5: the token get_valid_token (refresh_google_token / refresh_ms_token)
\* returns has, at the moment of return, a stored expires_at after the clock;
\* so has the row a calendar tool gets from get_user_token.
C5_ReturnedTokenUnexpired ==
    [][ /\ \A p \in Procs :
            Returns(p) => tokens'[rf'[p].row].expires_at > now'
        /\ (read = 0 /\ read' # 0) => tokens'[read'].expires_at > now'
      ]_vars

C5_Witness ==
    /\ \E p \in Procs : rf[p].pc = "returned" /\ rf[p].reqs = 0 /\ now > 0
    /\ read # 0

\* C6: when the token endpoint answers a refresh with a non-2xx status or
\* with a body lacking access_token, the call raises, the table is as it was
\* and the call has made exactly one request, with no retry.
C6_FailedRefreshLeavesRow ==
    [][ \A p \in Procs :
        (Answered(p) /\ BadResponse(rf'[p].resp))
            => (rf'[p].pc = "raised" /\ rf'[p].reqs = 1 /\ tokens' = tokens)
      ]_vars

C6_Witness ==
    \E p, q \in Procs :
        /\ rf[p].pc = "raised" /\ rf[p].result = "http_error"
        /\ rf[q].pc = "raised" /\ rf[q].result = "key_error"

C8_ExpiresAtNeverDecreases ==
    [][ \A p, q \in Procs :
        ( /\ Commits(p)
          /\ q # p
          /\ rf[q].pc = "returned" /\ rf[q].reqs = 1
          /\ rf[q].row = rf[p].row
          /\ tokens[rf[p].row].access_token = rf[q].result )
        => tokens'[rf[p].row].expires_at >= tokens[rf[p].row].expires_at
      ]_vars

\* C9: no refresh and no re-authorization blanks a stored refresh_token: a
\* refresh whose response omits refresh_token leaves it as it was, and a
\* stored refresh_token only ever changes to one a provider issued.
C9_RefreshTokenNeverBlanked ==
    [][ /\ \A i \in DOMAIN tokens :
            /\ tokens[i].refresh_token # None
                => tokens'[i].refresh_token # None
            /\ tokens'[i].refresh_token # tokens[i].refresh_token
                => tokens'[i].refresh_token
                        \in AuthRefreshTokens \cup RotatedRefreshTokens
        /\ \A p \in Procs :
            (Commits(p) /\ rf'[p].resp.refresh_token = None)
                => tokens'[rf[p].row].refresh_token
                        = tokens[rf[p].row].refresh_token
      ]_vars

C9_Witness ==
    /\ \E p \in Procs :
        /\ rf[p].pc = "returned" /\ rf[p].reqs = 1
        /\ tokens[rf[p].row].refresh_token # None
    /\ issued = MaxIssued

\* The rows of the pair (u, prov).
RowsOf(u, prov) ==
    {i \in DOMAIN tokens : tokens[i].user_id = u /\ tokens[i].provider = prov}

\* C11: a call of get_valid_token (refresh_google_token / refresh_ms_token)
\* for a pair without credential row raises the not-found error, has made no
\* request to the token endpoint and leaves the table as it was.
C11_NoRowRaisesNotFound ==
    [][ \A p \in Procs :
        (Called(p) /\ RowsOf(rf'[p].user_id, rf'[p].provider) = {})
            => ( /\ rf'[p].pc = "raised"
                 /\ rf'[p].result = "not_found"
                 /\ rf'[p].reqs = 0
                 /\ tokens' = tokens )
      ]_vars

C11_Witness ==
    \E p \in Procs :
        /\ rf[p].pc = "raised" /\ rf[p].result = "not_found"
        /\ tokens # << >>

\* C12: a call that finds the stored expiry in the future returns the stored
\* access_token, has made no refresh request and leaves every field of every
\* row as it was.
C12_ValidTokenReturnedUnchanged ==
    [][ \A p \in Procs :
        LET rows == RowsOf(rf'[p].user_id, rf'[p].provider) IN
        ( /\ Called(p)
          /\ rows # {}
          /\ tokens[Min(rows)].expires_at > now )
            => ( /\ rf'[p].pc = "returned"
                 /\ rf'[p].result = tokens[Min(rows)].access_token
                 /\ rf'[p].reqs = 0
                 /\ tokens' = tokens )
      ]_vars

C12_Witness ==
    \E p \in Procs :
        /\ rf[p].pc = "returned" /\ rf[p].reqs = 0
        /\ rf[p].result = tokens[rf[p].row].access_token
        /\ tokens[rf[p].row].expires_at = now + 1

\* C13: in every reachable state a (user_id, provider) pair has at most one
\* credential row.
C13_OneRowPerPair ==
    \A u \in Users, prov \in Providers : Cardinality(RowsOf(u, prov)) <= 1

\* C10: a successful refresh gives the row the response's access_token and
\* expires_at, and the response's refresh_token when it carries one.
C10_RefreshStoresRotatedToken ==
    [][ \A p \in Procs :
        Commits(p) =>
            LET resp == rf'[p].resp
                row == tokens'[rf[p].row]
            IN /\ row.access_token = resp.access_token
               /\ row.expires_at = now' + ExpiresIn(resp)
               /\ resp.refresh_token # None
                    => row.refresh_token = resp.refresh_token
      ]_vars

\* C31: concurrent refreshes of one (user, provider) credential are
\* last-writer-wins updates of the same row.  No step of a refresh call adds,
\* removes or re-keys a row; the commit of a call p that replaces what a
\* concurrent call q has committed writes access_token and expires_at of p's
\* own response and touches no other row; and a row that holds the access
\* token a call got holds the expiry computed from that call's response.
C31_ConcurrentRefreshLastWriterWins ==
    [][ \A p \in Procs :
        /\ (Called(p) \/ Answered(p))
            => ( /\ Len(tokens') = Len(tokens)
                 /\ \A i \in DOMAIN tokens :
                        /\ tokens'[i].user_id = tokens[i].user_id
                        /\ tokens'[i].provider = tokens[i].provider )
        /\ \A q \in Procs \ {p} :
            ( /\ Commits(p)
              /\ rf[q].pc = "returned" /\ rf[q].reqs = 1
              /\ rf[q].row = rf[p].row
              /\ tokens[rf[p].row].access_token = rf[q].result )
            => ( /\ tokens'[rf[p].row].access_token = rf'[p].resp.access_token
                 /\ tokens'[rf[p].row].expires_at
                        = now' + ExpiresIn(rf'[p].resp)
                 /\ \A i \in DOMAIN tokens \ {rf[p].row} :
                        tokens'[i] = tokens[i] )
        /\ ( /\ rf'[p].pc = "returned" /\ rf'[p].reqs = 1
             /\ tokens'[rf'[p].row].access_token = rf'[p].result )
            => tokens'[rf'[p].row].expires_at - ExpiresIn(rf'[p].resp)
                    \in 0..now'
      ]_vars

\* Two calls that found the same expired row have both committed; the row
\* holds the token of the second writer.
C31_Witness ==
    \E p, q \in Procs :
        /\ p # q
        /\ rf[p].pc = "returned" /\ rf[p].reqs = 1
        /\ rf[q].pc = "returned" /\ rf[q].reqs = 1
        /\ rf[p].row = rf[q].row
        /\ rf[p].before = rf[q].before
        /\ ExpiresIn(rf[p].resp) # ExpiresIn(rf[q].resp)
        /\ tokens[rf[p].row].access_token = rf[p].result
        /\ Cardinality(RowsOf(rf[p].user_id, rf[p].provider)) = 1

(***************************************************************************)
(* A run that works on calendars: call_openai_assistant for a conversation *)
(* that has its thread, with the batches of CalendarBatches.  user-demo    *)
(* holds a Google credential, expired or not; the other user holds none.   *)
(***************************************************************************)
CalendarTokenTables ==
    { << [user_id |-> "user-demo", provider |-> "google", access_token |-> 1,
          refresh_token |-> "rt1", expires_at |-> e] >> : e \in {1, 2} }

InitCal ==
    /\ now = 1
    /\ tokens \in CalendarTokenTables
    /\ issued = 1
    /\ rf = [p \in Procs |-> IdleCall]
    /\ read = 0
    /\ thread_map = << [conversation_id |-> ConversationId, thread_id |-> 1] >>
    /\ threads = 1
    /\ remote = NoRun
    /\ orch = IdleOrch
    /\ handled = NothingHandled
    /\ goc = [r \in Callers |-> IdleGoc]
    /\ calendar \in { [NoCalendar EXCEPT !.graph_client = g] : g \in BOOLEAN }
    /\ history = << >>
    /\ inb = [r \in Callers |-> IdleInbound]
    /\ memory = NoMemory

NextCal ==
    \/ \E u \in Users : CallStart(u)
    \/ ThreadsRetrieve
    \/ ThreadsCreate
    \/ MessagesCreate
    \/ RunsCreate
    \/ RunsRetrieve
    \/ ToolCall
    \/ SubmitToolOutputs
    \/ MessagesList
    \/ RunStarts
    \/ \E batch \in CalendarBatches : RunPauses(batch)
    \/ RunResumes
    \/ \E status \in {"completed"} \cup FailureStatuses : RunEnds(status)
    \/ RunExpires
    \/ UserMessageAppended

SpecCal == InitCal /\ [][NextCal]_vars

(***************************************************************************)
(* Properties of the calendar tools, checked under SpecCal.                *)
(***************************************************************************)
\* The iteration of handle_tool_calls for a Google Calendar tool call.
GoogleDispatch ==
    /\ orch.pc = "tool_call"
    /\ orch' # orch
    /\ DispatchedCall.name \in GoogleToolNames

\* C23: the iteration for a Google Calendar tool call of a user without
\* Google credential row does not raise, sends no request to the provider
\* and appends the authentication-required text as the output of the call,
\* so that the loop goes on to the next call or to the submission (an
\* iteration whose credential query fails is left aside).
C23_NoCredentialAsksToAuthenticate ==
    [][ ( /\ GoogleDispatch
          /\ RowsOf(orch.user_id, "google") = {}
          /\ orch'.exc # "db_error" )
        => ( /\ orch'.exc = None
             /\ orch'.pc \in {"tool_call", "submit_tool_outputs"}
             /\ Len(orch'.tool_outputs) = Len(orch.tool_outputs) + 1
             /\ AppendedOutput.tool_call_id = DispatchedCall.id
             /\ AppendedOutput.output = "auth_required"
             /\ calendar'.requests = calendar.requests )
      ]_vars

\* C24: when the iteration for a Google Calendar tool call of a user whose
\* credential row has a refresh token and an expired access token appends
\* an output, the output is not the authentication-required text, a request
\* has gone to the provider and the row holds an unexpired token.
C24_ExpiredTokenIsRefreshed ==
    [][ ( /\ GoogleDispatch
          /\ orch'.exc = None
          /\ RowsOf(orch.user_id, "google") # {}
          /\ \A i \in RowsOf(orch.user_id, "google") :
                /\ tokens[i].refresh_token # None
                /\ tokens[i].expires_at <= now )
        => ( /\ AppendedOutput.output # "auth_required"
             /\ calendar'.requests # calendar.requests
             /\ \E i \in RowsOf(orch.user_id, "google") :
                    tokens'[i].expires_at > now' )
      ]_vars

\* C25: every request a calendar tool has sent addresses the calendar of
\* the acting user of the inbound message.
C25_ActsAsTheActingUser ==
    \A q \in calendar.requests : q.calendar = q.acting

\* C30: no step removes an event a tool call has created, neither the step
\* at which the call observes the run failed, cancelled or expired nor the
\* one at which it gives up with an error.
C30_EventsOutliveTheRun ==
    [][ /\ calendar.events \subseteq calendar'.events
        /\ (orch.pc # "done" /\ orch'.pc = "done")
            => calendar'.events = calendar.events
      ]_vars

C30_Witness ==
    /\ orch.pc = "done"
    /\ orch.reply = "terminal_failure"
    /\ [provider |-> "google", calendar |-> "user-demo"] \in calendar.events
    /\ \E q \in calendar.requests : q.op = "create" /\ q.acting = "user-demo"

(***************************************************************************)
(* The inbound webhook: messages_endpoint, the adapter and                 *)
(* XuxuTeamsBot.on_message_activity (main.py 727-749, 884-903) for the     *)
(* requests of Requests, which the server handles concurrently.  Of        *)
(* call_openai_assistant the steps up to the run and the reading of the    *)
(* reply are taken; the course of the polling loop is that of SpecRun and  *)
(* only its end is taken here.                                             *)
(***************************************************************************)
Requests == {"r1", "r2"}

\* The texts call_openai_assistant returns: the assistant's text, the
\* fallback, the failure text naming the status, the technical-error text.
Replies == {"text", "fallback", "terminal_failure", "error"}

\* ConversationMemory(conversation_id=..., role=..., content=...)
MessageRow(c, role, content) ==
    [conversation_id |-> c, role |-> role, content |-> content]

\* save_message: session.add of a new ConversationMemory row, commit; the
\* row gets the next id.
save_message_first(c, role, content) ==
    << MessageRow(c, role, content) >> \o history
save_message(c, role, content) ==
    Append(history, MessageRow(c, role, content))

\* get_conversation_history (main.py 118-128): the rows of the conversation
\* ordered by id descending, the first `limit` of them, and that list
\* reversed.  A row of the answer carries its id, its place in the table.
Max(S) == CHOOSE x \in S : \A y \in S : x >= y

RECURSIVE OrderByIdDesc(_)
OrderByIdDesc(S) ==
    IF S = {} THEN << >>
    ELSE << Max(S) >> \o OrderByIdDesc(S \ {Max(S)})

Limit(seq, n) == IF Len(seq) <= n THEN seq ELSE SubSeq(seq, 1, n)

Reversed_not(seq) == seq
Reversed(seq) == [k \in 1..Len(seq) |-> seq[Len(seq) + 1 - k]]

get_conversation_history(table, c, limit) ==
    LET ids == Reversed(Limit(OrderByIdDesc(
                    {i \in DOMAIN table : table[i].conversation_id = c}),
                    limit))
    IN [k \in 1..Len(ids) |->
            [id |-> ids[k],
             conversation_id |-> table[ids[k]].conversation_id,
             role |-> table[ids[k]].role,
             content |-> table[ids[k]].content]]

\* The handler ends: the exception reaches the except clause of
\* messages_endpoint, which raises HTTPException(status_code=500); without
\* exception the adapter returns no invoke response and the endpoint
\* answers Response(status_code=200).
Answered500(r) == [inb[r] EXCEPT !.pc = "done", !.status = 500]
Answered200(r) == [inb[r] EXCEPT !.pc = "done", !.status = 200]

\* The statement after the assistant call (main.py 743-746): the reply is
\* saved before it is sent.
AfterAssistant_sendFirst == "send_activity"
AfterAssistant == "save_message"

\* call_openai_assistant returns text (a return statement or the except
\* clause, main.py 702, 715-723).
Replied(r, text) == [inb[r] EXCEPT !.pc = AfterAssistant, !.reply = text]

\* user_message.startswith("/auth") (main.py 735); `command` says whether
\* the text of the activity starts so.
IsAuthCommand_never(command) == FALSE
IsAuthCommand(command) == command

\* Lines 884-895 and 727-743: the request arrives, the adapter
\* authenticates it and runs on_turn.  A failure of req.json(), of the
\* deserialization or of the adapter raises.  An /auth command goes to
\* handle_auth_command.  Any other message is saved as the user row, which
\* can raise, and call_openai_assistant is entered.
MessagesEndpoint(r, c, command) ==
    /\ inb[r].pc = "idle"
    /\ \E adapter_ok, db_ok \in BOOLEAN :
        LET req == [inb[r] EXCEPT !.conversation_id = c,
                                  !.command = command] IN
        IF ~adapter_ok
        THEN /\ inb' = [inb EXCEPT ![r] =
                        [req EXCEPT !.pc = "done", !.status = 500]]
             /\ history' = history
        ELSE IF IsAuthCommand(command)
        THEN /\ inb' = [inb EXCEPT ![r] =
                        [req EXCEPT !.pc = "send_activity",
                                    !.reply = "auth_link"]]
             /\ history' = history
        ELSE IF ~db_ok
        THEN /\ inb' = [inb EXCEPT ![r] =
                        [req EXCEPT !.pc = "done", !.status = 500]]
             /\ history' = history
        ELSE /\ history' = save_message(c, "user", "text")
             /\ inb' = [inb EXCEPT ![r] =
                        [req EXCEPT !.pc = "get_or_create_thread",
                                    !.user_row = Len(history) + 1]]
    /\ memory' = memory
    /\ UNCHANGED tokVars
    /\ UNCHANGED runVars
    /\ UNCHANGED thrVars
    /\ UNCHANGED calVars

\* Line 672: get_or_create_thread has returned the thread or raised; an
\* exception goes to the except clause of call_openai_assistant.
ThreadResolved(r) ==
    /\ inb[r].pc = "get_or_create_thread"
    /\ goc[r].pc \in {"returned", "raised"}
    /\ inb' = [inb EXCEPT ![r] =
                IF goc[r].pc = "returned"
                THEN [@ EXCEPT !.pc = "messages_create",
                               !.thread_id = goc[r].result]
                ELSE Replied(r, "error")]
    /\ history' = history
    /\ memory' = memory
    /\ UNCHANGED tokVars
    /\ UNCHANGED runVars
    /\ UNCHANGED thrVars
    /\ UNCHANGED calVars

\* Lines 679-683: client.beta.threads.messages.create answers.
AppendMessage(r) ==
    /\ inb[r].pc = "messages_create"
    /\ \E ok \in BOOLEAN :
        inb' = [inb EXCEPT ![r] =
                    IF ok THEN [@ EXCEPT !.pc = "runs_create"]
                    ELSE Replied(r, "error")]
    /\ history' = history
    /\ memory' = memory
    /\ UNCHANGED tokVars
    /\ UNCHANGED runVars
    /\ UNCHANGED thrVars
    /\ UNCHANGED calVars

\* Lines 685-688: client.beta.threads.runs.create answers.
CreateRun(r) ==
    /\ inb[r].pc = "runs_create"
    /\ \E ok \in BOOLEAN :
        inb' = [inb EXCEPT ![r] =
                    IF ok THEN [@ EXCEPT !.pc = "runs_retrieve"]
                    ELSE Replied(r, "error")]
    /\ history' = history
    /\ memory' = memory
    /\ UNCHANGED tokVars
    /\ UNCHANGED runVars
    /\ UNCHANGED thrVars
    /\ UNCHANGED calVars

\* Lines 691-704: the polling loop ends: the run is completed, or it is
\* failed / cancelled / expired, or a request or a tool call has raised.
PollingEnds(r) ==
    /\ inb[r].pc = "runs_retrieve"
    /\ \E end \in {"completed", "terminal_failure", "error"} :
        inb' = [inb EXCEPT ![r] =
                    IF end = "completed"
                    THEN [@ EXCEPT !.pc = "messages_list"]
                    ELSE Replied(r, end)]
    /\ history' = history
    /\ memory' = memory
    /\ UNCHANGED tokVars
    /\ UNCHANGED runVars
    /\ UNCHANGED thrVars
    /\ UNCHANGED calVars

\* Lines 707-719: client.beta.threads.messages.list answers.
ReadReply(r) ==
    /\ inb[r].pc = "messages_list"
    /\ \E text \in {"text", "fallback", "error"} :
        inb' = [inb EXCEPT ![r] = Replied(r, text)]
    /\ history' = history
    /\ memory' = memory
    /\ UNCHANGED tokVars
    /\ UNCHANGED runVars
    /\ UNCHANGED thrVars
    /\ UNCHANGED calVars

\* Line 746: the reply is saved as the assistant row, which can raise.
SaveAssistant(r) ==
    /\ inb[r].pc = "save_message"
    /\ \E db_ok \in BOOLEAN :
        IF db_ok
        THEN /\ history' = save_message(inb[r].conversation_id, "assistant",
                                        inb[r].reply)
             /\ inb' = [inb EXCEPT ![r] =
                        [@ EXCEPT !.pc = "send_activity",
                                  !.assistant_row = Len(history) + 1]]
        ELSE /\ history' = history
             /\ inb' = [inb EXCEPT ![r] = Answered500(r)]
    /\ memory' = memory
    /\ UNCHANGED tokVars
    /\ UNCHANGED runVars
    /\ UNCHANGED thrVars
    /\ UNCHANGED calVars

\* Line 749 (and 757-771 for a command): turn_context.send_activity
\* answers; then the handler, the adapter and the endpoint return.
SendActivity(r) ==
    /\ inb[r].pc = "send_activity"
    /\ \E ok \in BOOLEAN :
        inb' = [inb EXCEPT ![r] =
                    IF ok
                    THEN [Answered200(r) EXCEPT !.sent = inb[r].reply]
                    ELSE Answered500(r)]
    /\ history' = history
    /\ memory' = memory
    /\ UNCHANGED tokVars
    /\ UNCHANGED runVars
    /\ UNCHANGED thrVars
    /\ UNCHANGED calVars

NextMsg ==
    \/ \E r \in Requests, c \in Conversations, command \in BOOLEAN :
            MessagesEndpoint(r, c, command)
    \/ \E r \in Requests :
            /\ inb[r].pc = "get_or_create_thread"
            /\ GocStart(r, inb[r].conversation_id)
    \/ \E r \in Requests : GocRetrieve(r)
    \/ \E r \in Requests : GocCreate(r)
    \/ \E r \in Requests : ThreadResolved(r)
    \/ \E r \in Requests : AppendMessage(r)
    \/ \E r \in Requests : CreateRun(r)
    \/ \E r \in Requests : PollingEnds(r)
    \/ \E r \in Requests : ReadReply(r)
    \/ \E r \in Requests : SaveAssistant(r)
    \/ \E r \in Requests : SendActivity(r)

SpecMsg == InitTok /\ [][NextMsg]_vars

(***************************************************************************)
(* Properties of the inbound webhook, checked under SpecMsg.               *)
(***************************************************************************)
\* Request r has appended its message to the thread and has not yet read
\* the reply of its run.
InSequence(r) ==
    inb[r].pc \in {"runs_create", "runs_retrieve", "messages_list"}

\* C21: two requests of one conversation are never both between the append
\* of their message to the conversation's thread and the reading of the
\* reply of their run.
C21_RunsSerialized ==
    \A r, q \in Requests :
        ( /\ r # q
          /\ inb[r].conversation_id = inb[q].conversation_id
          /\ inb[r].thread_id = inb[q].thread_id )
        => ~(InSequence(r) /\ InSequence(q))

\* The rows of the table with the given role.
RowsWithRole(role) == {i \in DOMAIN history : history[i].role = role}

\* C26: every step leaves each row of the history where and as it was and
\* at most adds rows after them, so that the rows a conversation had are
\* the first rows of those it has afterwards.
C26_HistoryAppendOnly ==
    [][ /\ Len(history') >= Len(history)
        /\ \A i \in DOMAIN history : history'[i] = history[i]
        /\ \A c \in Conversations :
            LET before == get_conversation_history(history, c, Len(history))
                after == get_conversation_history(history', c, Len(history'))
            IN /\ Len(after) >= Len(before)
               /\ SubSeq(after, 1, Len(before)) = before
      ]_vars

C26_Witness ==
    /\ Len(history) = 4
    /\ history[1].conversation_id # history[2].conversation_id
    /\ history[3].role = "assistant"
    /\ history[3].conversation_id = history[2].conversation_id

\* C27: every request that is over was answered with status 200.
C27_AlwaysAcknowledged ==
    \A r \in Requests : inb[r].pc = "done" => inb[r].status = 200

C38_AuthCommandOnly ==
    [][ \A r \in Requests :
        inb'[r].command
            => ( /\ inb'[r].pc \in {"send_activity", "done"}
                 /\ inb'[r].user_row = 0 /\ inb'[r].assistant_row = 0
                 /\ inb'[r].thread_id = 0
                 /\ inb'[r].reply \in {None, "auth_link"}
                 /\ goc'[r] = IdleGoc
                 /\ inb'[r] # inb[r]
                        => ( /\ history' = history
                             /\ thread_map' = thread_map
                             /\ threads' = threads ) )
      ]_vars

\* The command of r1 was answered with the link while the message of r2
\* for the same conversation left its rows.
C38_Witness ==
    /\ inb["r1"].command /\ inb["r1"].pc = "done"
    /\ inb["r1"].status = 200 /\ inb["r1"].sent = "auth_link"
    /\ inb["r2"].pc = "done" /\ inb["r2"].assistant_row = 2
    /\ inb["r2"].conversation_id = inb["r1"].conversation_id
    /\ Len(history) = 2 /\ threads = 1

(***************************************************************************)
(* The history table and its reader: save_message is called by the        *)
(* handlers of any conversation, with either role, and GET /memory reads   *)
(* a conversation with a limit.                                            *)
(***************************************************************************)
Roles == {"user", "assistant"}

\* save_message(conversation_id, role, content) of some handler.
SaveMessage(c, role) ==
    /\ Len(history) < MaxRows
    /\ history' = save_message(c, role, "text")
    /\ UNCHANGED <<inb, memory>>
    /\ UNCHANGED tokVars
    /\ UNCHANGED runVars
    /\ UNCHANGED thrVars
    /\ UNCHANGED calVars

\* get_memory (main.py 931-946): get_conversation_history(conversation_id,
\* limit=limit) with the values of the request.
GetMemory(c, limit) ==
    /\ memory' = [conversation_id |-> c, limit |-> limit,
                  messages |-> get_conversation_history(history, c, limit)]
    /\ UNCHANGED <<history, inb>>
    /\ UNCHANGED tokVars
    /\ UNCHANGED runVars
    /\ UNCHANGED thrVars
    /\ UNCHANGED calVars

NextMem ==
    \/ \E c \in Conversations, role \in Roles : SaveMessage(c, role)
    \/ \E c \in Conversations, limit \in 0..MaxLimit : GetMemory(c, limit)

SpecMem == InitTok /\ [][NextMem]_vars

\* The ids of the rows conversation c has in the table.
IdsOf(c) == {i \in DOMAIN history : history[i].conversation_id = c}

\* C39: the answer of get_conversation_history(c, limit) holds rows of c
\* only, each as the table holds it; it holds limit rows, or all rows of c
\* when c has fewer; every row of c it leaves out is older than every row
\* it holds; and it is ordered oldest first.
C39_HistoryIsNewestOldestFirst ==
    [][ memory' # memory =>
        LET res == memory'.messages
            c == memory'.conversation_id
            limit == memory'.limit
            got == {res[k].id : k \in DOMAIN res}
        IN /\ \A k \in DOMAIN res :
                /\ res[k].id \in IdsOf(c)
                /\ res[k].conversation_id = c
                /\ res[k].role = history[res[k].id].role
                /\ res[k].content = history[res[k].id].content
           /\ Len(res) <= limit
           /\ Len(res) = IF Cardinality(IdsOf(c)) < limit
                         THEN Cardinality(IdsOf(c)) ELSE limit
           /\ Cardinality(got) = Len(res)
           /\ \A i \in IdsOf(c) \ got : \A j \in got : i < j
           /\ \A k \in DOMAIN res :
                k > 1 => res[k - 1].id < res[k].id
      ]_vars

\* Conversation c1 has three rows, with a row of c2 between them; the
\* answer for limit 2 is its rows 2 and 4.
C39_Witness ==
    /\ Len(history) = 4
    /\ history[1].conversation_id = ConversationId
    /\ history[3].conversation_id # ConversationId
    /\ memory.conversation_id = ConversationId
    /\ memory.limit = 2
    /\ Len(memory.messages) = 2
    /\ memory.messages[1].id = 2 /\ memory.messages[1].role = "assistant"
    /\ memory.messages[2].id = 4

====
